---- MODULE Spec2Model ----
(***************************************************************************)
(* Model of the crawl engine of validator.py (class SiteAuditor):          *)
(* normalize_url, is_valid, extract_api_routes, crawl_page and crawl_all,  *)
(* of the coverage comparison of compare_with_app and of the two button    *)
(* handlers that run a crawl.  URLs and texts are strings; the string      *)
(* operations of the code (endswith, slicing, rstrip, urlparse, urldefrag, *)
(* urljoin, the route pattern) are computed character by character.        *)
(***************************************************************************)
EXTENDS Integers, Sequences, FiniteSets, TLC

(***************************************************************************)
(* Program constants                                                       *)
(***************************************************************************)
BASE_URL == "https://docs.valence.desire2learn.com/"

TargetHost == "docs.valence.desire2learn.com"

MinContent == 100

\* lines 654 and 656
ExcellentPct == 95

GoodPct == 80

\* line 789
QuickTestPages == 50

(***************************************************************************)
(* Bounds of the model                                                     *)
(***************************************************************************)
\* pieces appended to the base URL in the inputs of normalize_url
MaxSuffix == 3

\* <a href> elements on one page
MaxPageLinks == 2

\* <a href> elements on the whole site
MaxLinks == 3

\* route declarations on the whole site
MaxRoutes == 1

\* largest page ceiling passed to crawl_all
MaxCeiling == 2

\* largest page count in a coverage comparison
MaxCount == 20

\* pieces of text in an input of extract_api_routes
MaxItems == 2

\* clicks on the audit buttons in one session
MaxRuns == 2

\* the links of a fixed site, in all
MaxSiteLinks == 2

(***************************************************************************)
(* Python string primitives                                                *)
(***************************************************************************)
CharAt(s, i) == SubSeq(s, i, i)

StartsWith(s, pre) ==
    /\ Len(pre) <= Len(s)
    /\ SubSeq(s, 1, Len(pre)) = pre

EndsWith(s, suf) ==
    /\ Len(suf) <= Len(s)
    /\ SubSeq(s, Len(s) - Len(suf) + 1, Len(s)) = suf

\* s[:-n] for n > 0: everything but the last n characters
DropLast(s, n) == SubSeq(s, 1, Len(s) - n)

\* s[i:] with a 1-based i
From(s, i) == SubSeq(s, i, Len(s))

RECURSIVE RStrip(_, _)
RStrip(s, c) ==
    IF Len(s) > 0 /\ CharAt(s, Len(s)) = c
    THEN RStrip(DropLast(s, 1), c)
    ELSE s

\* position of the first character of s at or after i that is in cs, or Len(s)+1
RECURSIVE FindFrom(_, _, _)
FindFrom(s, cs, i) ==
    IF i > Len(s) THEN Len(s) + 1
    ELSE IF CharAt(s, i) \in cs THEN i
    ELSE FindFrom(s, cs, i + 1)

Contains(s, sub) ==
    \E i \in 1..(Len(s) - Len(sub) + 1) : SubSeq(s, i, i + Len(sub) - 1) = sub

UpperChars == "ABCDEFGHIJKLMNOPQRSTUVWXYZ"

LowerChars == "abcdefghijklmnopqrstuvwxyz"

LowerChar(c) ==
    IF \E k \in 1..26 : CharAt(UpperChars, k) = c
    THEN CharAt(LowerChars, CHOOSE k \in 1..26 : CharAt(UpperChars, k) = c)
    ELSE c

RECURSIVE Lower(_)
Lower(s) ==
    IF Len(s) = 0 THEN s
    ELSE LowerChar(CharAt(s, 1)) \o Lower(From(s, 2))

(***************************************************************************)
(* urllib.parse, on the URL shapes of the model: a lower-case scheme,      *)
(* "//" and a network location, then a path and an optional "#fragment";   *)
(* no "?", ";" or "@".  On these shapes urlunparse(urlparse(u)) gives u    *)
(* back, except that an empty fragment loses its "#".                      *)
(***************************************************************************)
urldefrag(url) ==
    IF Contains(url, "#")
    THEN SubSeq(url, 1, FindFrom(url, {"#"}, 1) - 1)
    ELSE url

\* lines 113-115 of normalize_url: the URL before the final rstrip("/")
strip_index(url) ==
    LET u1 == urldefrag(url)
    IN  IF EndsWith(u1, "/index.html") THEN DropLast(u1, 10) ELSE u1

normalize_url_rstrip1(url) ==
    LET u2 == strip_index(url)
    IN  IF EndsWith(u2, "/") THEN DropLast(u2, 1) ELSE u2

normalize_url(url) == RStrip(strip_index(url), "/")

\* urlparse(url): the network location and the path
SchemeEnd(url) == FindFrom(url, {":"}, 1)

AfterScheme(url) ==
    IF SchemeEnd(url) <= Len(url) /\ ~Contains(SubSeq(url, 1, SchemeEnd(url)), "/")
    THEN From(url, SchemeEnd(url) + 1)
    ELSE url

UrlNetloc(url) ==
    LET r == AfterScheme(url)
    IN  IF StartsWith(r, "//")
        THEN SubSeq(r, 3, FindFrom(r, {"/", "?", "#"}, 3) - 1)
        ELSE ""

UrlPath(url) ==
    LET r == AfterScheme(url)
        p == IF StartsWith(r, "//") THEN From(r, FindFrom(r, {"/", "?", "#"}, 3)) ELSE r
    IN  SubSeq(p, 1, FindFrom(p, {"?", "#"}, 1) - 1)

\* urlparse(url).hostname: the netloc without its port, lower-cased; "" stands for None
UrlHostname(url) ==
    LET n == UrlNetloc(url)
    IN  Lower(SubSeq(n, 1, FindFrom(n, {":"}, 1) - 1))

\* urlsplit raises ValueError("Invalid IPv6 URL") on an unbalanced bracket in the netloc
UrlparseRaises(url) ==
    LET n == UrlNetloc(url)
    IN  Contains(n, "[") # Contains(n, "]")

\* urljoin(base, href) for an href that is absolute, or is a path starting with "/"
urljoin(base, href) ==
    IF UrlNetloc(href) # "" THEN href
    ELSE IF StartsWith(href, "/")
    THEN SubSeq(base, 1, SchemeEnd(base)) \o "//" \o UrlNetloc(base) \o href
    ELSE href

skip_ext == {".png", ".jpg", ".gif", ".css", ".js", ".zip", ".pdf", ".txt", ".svg", ".ico"}

skip_paths == {"/_static/", "/_sources/", "/genindex.html", "/search.html"}

\* any host under the target host passes
is_valid_subdomains(url) ==
    /\ EndsWith(UrlHostname(url), TargetHost)
    /\ ~\E ext \in skip_ext : EndsWith(Lower(UrlPath(url)), ext)
    /\ ~\E skip \in skip_paths : Contains(UrlPath(url), skip)

is_valid(url) ==
    /\ UrlHostname(url) = TargetHost
    /\ ~\E ext \in skip_ext : EndsWith(Lower(UrlPath(url)), ext)
    /\ ~\E skip \in skip_paths : Contains(UrlPath(url), skip)

\* the first non-empty "/"-separated part of a path, or "" when there is none
RECURSIVE FirstPart(_)
FirstPart(path) ==
    IF Len(path) = 0 THEN ""
    ELSE IF CharAt(path, 1) = "/" THEN FirstPart(From(path, 2))
    ELSE SubSeq(path, 1, FindFrom(path, {"/"}, 1) - 1)

\* lines 183-186 of crawl_page
CategoryOf(url) ==
    LET first == FirstPart(UrlPath(url))
        category == IF first # "" THEN first ELSE "root"
    IN  IF EndsWith(category, ".html") THEN "root" ELSE category

(***************************************************************************)
(* extract_api_routes: the pattern of line 135, compiled with IGNORECASE,  *)
(* matched character by character on ASCII text                            *)
(***************************************************************************)
UpperChar(c) ==
    IF \E k \in 1..26 : CharAt(LowerChars, k) = c
    THEN CharAt(UpperChars, CHOOSE k \in 1..26 : CharAt(LowerChars, k) = c)
    ELSE c

RECURSIVE Upper(_)
Upper(s) ==
    IF Len(s) = 0 THEN s
    ELSE UpperChar(CharAt(s, 1)) \o Upper(From(s, 2))

CharsOf(s) == {CharAt(s, k) : k \in 1..Len(s)}

\* (GET|POST|PUT|PATCH|DELETE)
Methods == <<"GET", "POST", "PUT", "PATCH", "DELETE">>

\* \s
Whitespace == {" ", "\t", "\n", "\r", "\f"}

\* /d2l/api/
ApiPrefix == "/d2l/api/"

\* [\w/{}().~\-]
PathChars == CharsOf(LowerChars) \cup CharsOf(UpperChars) \cup CharsOf("0123456789_/{}().~-")

\* s[i-1 : i-1+n] is t in any letter case
MatchesAt(s, i, t) ==
    /\ i + Len(t) - 1 <= Len(s)
    /\ LowerChar(CharAt(s, i)) = LowerChar(CharAt(t, 1))
    /\ Lower(SubSeq(s, i, i + Len(t) - 1)) = Lower(t)

\* position of the first character of s at or after i that is not in cs, or Len(s)+1
RECURSIVE SkipWhile(_, _, _)
SkipWhile(s, cs, i) ==
    IF i > Len(s) THEN Len(s) + 1
    ELSE IF CharAt(s, i) \notin cs THEN i
    ELSE SkipWhile(s, cs, i + 1)

\* the match of the pattern that starts at position i of s, if there is one:
\* the two groups and the position after the match
MatchAt(s, i) ==
    IF \E m \in DOMAIN Methods : MatchesAt(s, i, Methods[m])
    THEN LET m == CHOOSE m \in DOMAIN Methods : MatchesAt(s, i, Methods[m])
             j == i + Len(Methods[m])
             k == SkipWhile(s, Whitespace, j)
             e == SkipWhile(s, PathChars, k + Len(ApiPrefix))
         IN  IF k > j /\ MatchesAt(s, k, ApiPrefix) /\ e > k + Len(ApiPrefix)
             THEN [ok |-> TRUE, method |-> SubSeq(s, i, j - 1),
                   path |-> SubSeq(s, k, e - 1), end |-> e]
             ELSE [ok |-> FALSE, method |-> "", path |-> "", end |-> i]
    ELSE [ok |-> FALSE, method |-> "", path |-> "", end |-> i]

\* pattern.findall(content) from position i on (line 136): the groups of the
\* non-overlapping matches, leftmost first
RECURSIVE findall(_, _)
findall(content, i) ==
    IF i > Len(content) THEN <<>>
    ELSE IF MatchAt(content, i).ok
    THEN <<MatchAt(content, i)>> \o findall(content, MatchAt(content, i).end)
    ELSE findall(content, i + 1)

\* line 137 without .upper()
extract_api_routes_asfound(content) ==
    LET matches == findall(content, 1)
    IN  [n \in DOMAIN matches |-> <<matches[n].method, matches[n].path>>]

\* lines 134-137
extract_api_routes(content) ==
    LET matches == findall(content, 1)
    IN  [n \in DOMAIN matches |-> <<Upper(matches[n].method), matches[n].path>>]

(***************************************************************************)
(* State of a SiteAuditor during crawl_all, and of the applications of     *)
(* normalize_url (the n_ variables).  fetched and enqueued are logs of the *)
(* calls of crawl_page and of the appends to the queue; links_seen counts  *)
(* the <a href> elements of the pages served so far and sleeps the calls   *)
(* of time.sleep.  The c_ variables are the inputs and results of a        *)
(* coverage comparison, the v_ variables those of an application of        *)
(* is_valid, the r_ variables those of an application of                   *)
(* extract_api_routes; the d_ group is the state of the page with its two  *)
(* audit buttons.  site is the response of each in-scope URL when the      *)
(* crawl runs on a fixed site, and empty when each fetch chooses its       *)
(* response.                                                               *)
(***************************************************************************)
VARIABLES pc, max_pages, queue, visited, pages, failed_urls, skipped_urls,
          url_map, route_count, categories, fetched, enqueued, links_seen, sleeps,
          n_in, n_hist, n_var, n_pair,
          c_expected, c_actual, c_pct, c_status,
          v_host, v_path, v_tail, v_result,
          r_items, r_out,
          d_pc, d_button, d_max_pages, d_exc, d_runs, crawl_running, open_clients,
          audit_results,
          site

vars == <<pc, max_pages, queue, visited, pages, failed_urls, skipped_urls,
          url_map, route_count, categories, fetched, enqueued, links_seen, sleeps,
          n_in, n_hist, n_var, n_pair,
          c_expected, c_actual, c_pct, c_status,
          v_host, v_path, v_tail, v_result,
          r_items, r_out,
          d_pc, d_button, d_max_pages, d_exc, d_runs, crawl_running, open_clients,
          audit_results,
          site>>

crawl_vars == <<pc, max_pages, queue, visited, pages, failed_urls, skipped_urls,
                url_map, route_count, categories, fetched, enqueued, links_seen, sleeps>>

norm_vars == <<n_in, n_hist, n_var, n_pair>>

cov_vars == <<c_expected, c_actual, c_pct, c_status>>

scope_vars == <<v_host, v_path, v_tail, v_result>>

route_vars == <<r_items, r_out>>

driver_vars == <<d_pc, d_button, d_max_pages, d_exc, d_runs, crawl_running,
                 open_clients, audit_results>>

site_vars == <<site>>

\* what the steps of the crawl, of the applications of normalize_url, of the
\* coverage comparison, of the applications of is_valid, of the applications
\* of extract_api_routes and of the button handlers leave alone
beside_crawl ==
    <<norm_vars, cov_vars, scope_vars, route_vars, driver_vars, site_vars>>

beside_norm ==
    <<crawl_vars, cov_vars, scope_vars, route_vars, driver_vars, site_vars>>

beside_cov ==
    <<norm_vars, crawl_vars, scope_vars, route_vars, driver_vars, site_vars>>

beside_scope ==
    <<norm_vars, crawl_vars, cov_vars, route_vars, driver_vars, site_vars>>

beside_routes ==
    <<norm_vars, crawl_vars, cov_vars, scope_vars, driver_vars, site_vars>>

beside_driver ==
    <<norm_vars, crawl_vars, cov_vars, scope_vars, route_vars, site_vars>>

None == "None"

\* a SiteAuditor after __init__ (lines 85-93), before crawl_all
CrawlIdle ==
    /\ pc = "init"
    /\ max_pages = 0
    /\ queue = <<>>
    /\ visited = {}
    /\ pages = <<>>
    /\ failed_urls = <<>>
    /\ skipped_urls = <<>>
    /\ url_map = <<>>
    /\ route_count = 0
    /\ categories = <<>>
    /\ fetched = <<>>
    /\ enqueued = <<>>
    /\ links_seen = 0
    /\ sleeps = 0

\* no application of normalize_url
NormIdle ==
    /\ n_in = ""
    /\ n_hist = <<>>
    /\ n_var = ""
    /\ n_pair = <<>>

\* no coverage comparison
CovIdle ==
    /\ c_expected = 0
    /\ c_actual = 0
    /\ c_pct = [num |-> 0, den |-> 1]
    /\ c_status = ""

\* no application of is_valid
ScopeIdle ==
    /\ v_host = [host |-> "", same |-> FALSE]
    /\ v_path = [path |-> "", ext |-> FALSE, skip |-> FALSE]
    /\ v_tail = ""
    /\ v_result = <<>>

\* no application of extract_api_routes
RoutesIdle ==
    /\ r_items = <<>>
    /\ r_out = <<>>

\* no site is fixed: every fetch chooses its response
SiteIdle == site = <<>>

\* the page before any click: the session state of lines 36-39, no auditor
DriverIdle ==
    /\ d_pc = "idle"
    /\ d_button = "none"
    /\ d_max_pages = 0
    /\ d_exc = "none"
    /\ d_runs = 0
    /\ crawl_running = FALSE
    /\ open_clients = 0
    /\ audit_results = <<>>

(***************************************************************************)
(* The site: what client.get(url) and the parsed document give             *)
(***************************************************************************)
Hrefs ==
    { "https://docs.valence.desire2learn.com/index.html#top",
      "/api/",
      "/about.html",
      "https://evil.example.com/",
      "#top",
      "https://[" }

RECURSIVE SeqsUpTo(_, _)
SeqsUpTo(S, n) ==
    IF n = 0 THEN {<<>>}
    ELSE LET shorter == SeqsUpTo(S, n - 1)
         IN  shorter \cup {Append(q, x) : q \in {r \in shorter : Len(r) = n - 1}, x \in S}

ContentLengths == {MinContent - 1, MinContent, MinContent + 1}

ContentTypes == {"text/html; charset=utf-8", "application/pdf"}

\* a response with status 200, an HTML content type and a main region
PageResponses ==
    [kind : {"response"}, status : {200}, ctype : {"text/html; charset=utf-8"},
     has_main : {TRUE}, content_length : ContentLengths, nroutes : 0..MaxRoutes,
     hrefs : SeqsUpTo(Hrefs, MaxPageLinks)]

NoResponse(kind) ==
    [kind |-> kind, status |-> 0, ctype |-> "", has_main |-> FALSE,
     content_length |-> 0, nroutes |-> 0, hrefs |-> <<>>]

\* the hrefs that the link loop resolves, and the URLs a crawl can meet:
\* the seed and what links lead to from it (two rounds close the set)
JoinHrefs ==
    {h \in Hrefs : ~StartsWith(h, "#") /\ ~StartsWith(h, "mailto:") /\ ~UrlparseRaises(h)}

\* line 241
Seed == normalize_url(BASE_URL)

Urls0 == {Seed}

Urls1 == Urls0 \cup {normalize_url(urljoin(b, h)) : b \in Urls0, h \in JoinHrefs}

KnownUrls == Urls1 \cup {normalize_url(urljoin(b, h)) : b \in Urls1, h \in JoinHrefs}

\* the functions of the code, tabulated on the URLs of the model
href_skipped == [h \in Hrefs |-> StartsWith(h, "#") \/ StartsWith(h, "mailto:")]

href_raises == [h \in Hrefs |-> UrlparseRaises(h)]

link_target == [b \in KnownUrls, h \in JoinHrefs |-> normalize_url(urljoin(b, h))]

valid == [u \in KnownUrls |-> is_valid(u)]

category_of == [u \in KnownUrls |-> CategoryOf(u)]

\* line 151
is_html == [ct \in ContentTypes \cup {""} |-> Contains(ct, "text/html")]

(***************************************************************************)
(* crawl_page                                                              *)
(***************************************************************************)
MapAppend(m, k, v) ==
    IF k \in DOMAIN m
    THEN [m EXCEPT ![k] = Append(@, v)]
    ELSE (k :> <<v>>) @@ m

\* defaultdict access m[k]: an absent key is inserted with the default
MapTouch(m, k, default) ==
    IF k \in DOMAIN m THEN m ELSE (k :> default) @@ m

\* the loop over soup.find_all("a", href=True), from the i-th link on;
\* raised: urljoin raised, the except clause of crawl_page takes over
RECURSIVE LinkLoop_noscope(_, _, _, _, _, _)
LinkLoop_noscope(url, hrefs, i, um, links, vis) ==
    IF i > Len(hrefs) THEN [raised |-> FALSE, url_map |-> um, links |-> links]
    ELSE LET href == hrefs[i]
         IN  IF href_skipped[href]
             THEN LinkLoop_noscope(url, hrefs, i + 1, um, links, vis)
             ELSE IF href_raises[href]
             THEN [raised |-> TRUE, url_map |-> um, links |-> links]
             ELSE LET norm_url == link_target[url, href]
                      um2      == MapAppend(um, norm_url, url)
                  IN  IF norm_url \notin vis
                      THEN LinkLoop_noscope(url, hrefs, i + 1, um2, Append(links, norm_url), vis)
                      ELSE LinkLoop_noscope(url, hrefs, i + 1, um2, links, vis)

RECURSIVE LinkLoop(_, _, _, _, _, _)
LinkLoop(url, hrefs, i, um, links, vis) ==
    IF i > Len(hrefs) THEN [raised |-> FALSE, url_map |-> um, links |-> links]
    ELSE LET href == hrefs[i]
         IN  IF href_skipped[href]
             THEN LinkLoop(url, hrefs, i + 1, um, links, vis)
             ELSE IF href_raises[href]
             THEN [raised |-> TRUE, url_map |-> um, links |-> links]
             ELSE LET norm_url == link_target[url, href]
                      um2      == MapAppend(um, norm_url, url)
                  IN  IF valid[norm_url] /\ norm_url \notin vis
                      THEN LinkLoop(url, hrefs, i + 1, um2, Append(links, norm_url), vis)
                      ELSE LinkLoop(url, hrefs, i + 1, um2, links, vis)

\* a failure record; status 0 and error None stand for an absent key
Failure(url, status, error, parent) ==
    [url |-> url, status |-> status, error |-> error, parent |-> parent]

Skip(url, reason) == [url |-> url, reason |-> reason]

\* lines 222-228, except httpx.TimeoutException: the effects that the try
\* block had so far (um, cats, rc, fails, skips) are kept, a failure is
\* recorded and (None, []) returned
ExceptTimeout(um, cats, rc, fails, skips, url, parent_url) ==
    [page_data |-> <<>>, links |-> <<>>, url_map |-> um,
     categories |-> cats, route_count |-> rc,
     failed_urls |-> Append(fails, Failure(url, 0, "Timeout", parent_url)),
     skipped_urls |-> skips, raised |-> FALSE]

\* without lines 230-236 the exception leaves crawl_page
ExceptException_propagates(um, cats, rc, fails, skips, url, error, parent_url) ==
    [page_data |-> <<>>, links |-> <<>>, url_map |-> um,
     categories |-> cats, route_count |-> rc,
     failed_urls |-> fails, skipped_urls |-> skips, raised |-> TRUE]

\* lines 230-236, except Exception as e
ExceptException(um, cats, rc, fails, skips, url, error, parent_url) ==
    [page_data |-> <<>>, links |-> <<>>, url_map |-> um,
     categories |-> cats, route_count |-> rc,
     failed_urls |-> Append(fails, Failure(url, 0, error, parent_url)),
     skipped_urls |-> skips, raised |-> FALSE]

\* crawl_page(url, parent_url) on the response resp, in the auditor state
\* (um, cats, rc, fails, skips, vis): the returned pair and the new state.
\* The returned page_data is <<>> for None and <<record>> otherwise; raised
\* says that an exception left crawl_page instead of a returned pair.
crawl_page(url, parent_url, resp, um, cats, rc, fails, skips, vis) ==
    LET unchanged == [page_data |-> <<>>, links |-> <<>>, url_map |-> um,
                      categories |-> cats, route_count |-> rc,
                      failed_urls |-> fails, skipped_urls |-> skips,
                      raised |-> FALSE]
    IN  IF resp.kind = "timeout"
        THEN ExceptTimeout(um, cats, rc, fails, skips, url, parent_url)
        ELSE IF resp.kind = "error"
        THEN ExceptException(um, cats, rc, fails, skips, url, "error", parent_url)
        ELSE IF resp.status # 200
        THEN [unchanged EXCEPT !.failed_urls = Append(fails, Failure(url, resp.status, None, parent_url))]
        ELSE IF ~is_html[resp.ctype]
        THEN [unchanged EXCEPT !.skipped_urls = Append(skips, Skip(url, "Not HTML"))]
        ELSE IF ~resp.has_main
        THEN [unchanged EXCEPT !.skipped_urls = Append(skips, Skip(url, "No main content found"))]
        ELSE LET category  == category_of[url]
                 cats2     == [MapTouch(cats, category, 0) EXCEPT ![category] = @ + 1]
                 rc2       == rc + resp.nroutes
                 page_data == [url |-> url, content_length |-> resp.content_length,
                               category |-> category, routes_found |-> resp.nroutes,
                               parent_url |-> parent_url]
                 loop      == LinkLoop(url, resp.hrefs, 1, um, <<>>, vis)
             IN  IF loop.raised
                 THEN ExceptException(loop.url_map, cats2, rc2, fails, skips,
                                      url, "Invalid IPv6 URL", parent_url)
                 ELSE [page_data |-> <<page_data>>, links |-> loop.links,
                       url_map |-> loop.url_map,
                       categories |-> cats2, route_count |-> rc2,
                       failed_urls |-> fails, skipped_urls |-> skips,
                       raised |-> FALSE]

(***************************************************************************)
(* crawl_all                                                               *)
(***************************************************************************)
\* line 247
CeilingReached_gt(mp, npages) == mp # 0 /\ npages > mp

CeilingReached(mp, npages) == mp # 0 /\ npages >= mp

\* line 259
Commits_nofilter(page_data) == page_data # <<>>

Commits_ge(page_data) ==
    page_data # <<>> /\ page_data[1].content_length >= MinContent

Commits(page_data) ==
    page_data # <<>> /\ page_data[1].content_length > MinContent

\* lines 262-265, from the i-th link on: the new visited, queue and enqueued
RECURSIVE Expand_nomark(_, _, _, _, _)
Expand_nomark(links, i, vis, q, enq) ==
    IF i > Len(links) THEN [visited |-> vis, queue |-> q, enqueued |-> enq]
    ELSE IF links[i] \notin vis
    THEN Expand_nomark(links, i + 1, vis, Append(q, links[i]), Append(enq, links[i]))
    ELSE Expand_nomark(links, i + 1, vis, q, enq)

RECURSIVE Expand_nocheck(_, _, _, _, _)
Expand_nocheck(links, i, vis, q, enq) ==
    IF i > Len(links) THEN [visited |-> vis, queue |-> q, enqueued |-> enq]
    ELSE Expand_nocheck(links, i + 1, vis \cup {links[i]},
                        Append(q, links[i]), Append(enq, links[i]))

\* lines 262-265 with a break after the first link that is enqueued
RECURSIVE Expand_firstonly(_, _, _, _, _)
Expand_firstonly(links, i, vis, q, enq) ==
    IF i > Len(links) THEN [visited |-> vis, queue |-> q, enqueued |-> enq]
    ELSE IF links[i] \notin vis
    THEN [visited |-> vis \cup {links[i]},
          queue |-> Append(q, links[i]), enqueued |-> Append(enq, links[i])]
    ELSE Expand_firstonly(links, i + 1, vis, q, enq)

RECURSIVE Expand(_, _, _, _, _)
Expand(links, i, vis, q, enq) ==
    IF i > Len(links) THEN [visited |-> vis, queue |-> q, enqueued |-> enq]
    ELSE IF links[i] \notin vis
    THEN Expand(links, i + 1, vis \cup {links[i]},
                Append(q, links[i]), Append(enq, links[i]))
    ELSE Expand(links, i + 1, vis, q, enq)

Init ==
    /\ CrawlIdle /\ NormIdle /\ CovIdle /\ ScopeIdle /\ RoutesIdle /\ DriverIdle
    /\ SiteIdle

\* lines 239-244 without line 242
CrawlAllStart_unmarked ==
    /\ pc = "init"
    /\ \E mp \in 0..MaxCeiling : max_pages' = mp
    /\ queue' = <<Seed>>
    /\ enqueued' = <<Seed>>
    /\ pc' = "loop"
    /\ UNCHANGED <<visited, pages, failed_urls, skipped_urls, url_map, route_count,
                   categories, fetched, links_seen, sleeps, beside_crawl>>

\* lines 239-244; max_pages = 0 stands for None (line 69), both are falsy at line 247
CrawlAllStart ==
    /\ pc = "init"
    /\ \E mp \in 0..MaxCeiling : max_pages' = mp
    /\ queue' = <<Seed>>
    /\ visited' = visited \cup {Seed}
    /\ enqueued' = <<Seed>>
    /\ pc' = "loop"
    /\ UNCHANGED <<pages, failed_urls, skipped_urls, url_map, route_count,
                   categories, fetched, links_seen, sleeps, beside_crawl>>

\* lines 246-247: the loop goes on
LoopGoesOn ==
    /\ pc = "loop"
    /\ queue # <<>>
    /\ ~CeilingReached(max_pages, Len(pages))

\* line 251, queue.pop(0): the URL taken and the queue left
Pop_last(q) == [url |-> q[Len(q)], rest |-> SubSeq(q, 1, Len(q) - 1)]

Pop(q) == [url |-> Head(q), rest |-> Tail(q)]

\* line 252, on the url_map in which the access has inserted url
ParentOf_last(um, url) == IF um[url] # <<>> THEN um[url][Len(um[url])] ELSE None

ParentOf(um, url) == IF um[url] # <<>> THEN um[url][1] ELSE None

\* line 267, time.sleep(crawl_delay), on the number of sleeps so far
Sleep_skipped(n) == n

Sleep(n) == n + 1

\* the iteration with lines 262-265 inside the if of line 259
Iteration_commit_expands(resp) ==
    /\ LoopGoesOn
    /\ LET url    == Pop(queue).url
           um1    == MapTouch(url_map, url, <<>>)
           parent == ParentOf(um1, url)
       IN  \E r \in {crawl_page(url, parent, resp, um1, categories, route_count,
                                failed_urls, skipped_urls, visited)} :
           \E e \in {Expand(IF Commits(r.page_data) THEN r.links ELSE <<>>, 1, visited,
                            Pop(queue).rest, enqueued)} :
           /\ pc' = IF r.raised THEN "raised" ELSE pc
           /\ pages' = IF Commits(r.page_data) THEN Append(pages, r.page_data[1]) ELSE pages
           /\ visited' = e.visited
           /\ queue' = e.queue
           /\ enqueued' = e.enqueued
           /\ url_map' = r.url_map
           /\ categories' = r.categories
           /\ route_count' = r.route_count
           /\ failed_urls' = r.failed_urls
           /\ skipped_urls' = r.skipped_urls
           /\ sleeps' = IF r.raised THEN sleeps ELSE Sleep(sleeps)
           /\ fetched' = Append(fetched,
                  [url |-> url,
                   parent |-> parent,
                   kind |-> resp.kind,
                   status |-> resp.status,
                   bad_href |-> \E i \in DOMAIN resp.hrefs : href_raises[resp.hrefs[i]],
                   returned_page |-> r.page_data # <<>>,
                   content_length |-> resp.content_length])
    /\ links_seen' = links_seen + Len(resp.hrefs)
    /\ UNCHANGED <<max_pages, beside_crawl>>

\* one iteration of the while loop (lines 251-267) on the response resp; an
\* exception that leaves crawl_page leaves crawl_all at line 257
Iteration(resp) ==
    /\ LoopGoesOn
    /\ LET url    == Pop(queue).url
           um1    == MapTouch(url_map, url, <<>>)
           parent == ParentOf(um1, url)
       IN  \E r \in {crawl_page(url, parent, resp, um1, categories, route_count,
                                failed_urls, skipped_urls, visited)} :
           \E e \in {Expand(r.links, 1, visited, Pop(queue).rest, enqueued)} :
           /\ pc' = IF r.raised THEN "raised" ELSE pc
           /\ pages' = IF Commits(r.page_data) THEN Append(pages, r.page_data[1]) ELSE pages
           /\ visited' = e.visited
           /\ queue' = e.queue
           /\ enqueued' = e.enqueued
           /\ url_map' = r.url_map
           /\ categories' = r.categories
           /\ route_count' = r.route_count
           /\ failed_urls' = r.failed_urls
           /\ skipped_urls' = r.skipped_urls
           /\ sleeps' = IF r.raised THEN sleeps ELSE Sleep(sleeps)
           /\ fetched' = Append(fetched,
                  [url |-> url,
                   parent |-> parent,
                   kind |-> resp.kind,
                   status |-> resp.status,
                   bad_href |-> \E i \in DOMAIN resp.hrefs : href_raises[resp.hrefs[i]],
                   returned_page |-> r.page_data # <<>>,
                   content_length |-> resp.content_length])
    /\ links_seen' = links_seen + Len(resp.hrefs)
    /\ UNCHANGED <<max_pages, beside_crawl>>

\* client.get raises httpx.TimeoutException
FetchTimeout ==
    /\ LoopGoesOn
    /\ Iteration(NoResponse("timeout"))

\* client.get raises another exception
FetchError ==
    /\ LoopGoesOn
    /\ Iteration(NoResponse("error"))

StatusCodes == {404}

FetchNon200 ==
    /\ LoopGoesOn
    /\ \E st \in StatusCodes : Iteration([NoResponse("response") EXCEPT !.status = st])

FetchNotHtml ==
    \E ct \in ContentTypes :
        /\ ~is_html[ct]
        /\ Iteration([NoResponse("response") EXCEPT !.status = 200, !.ctype = ct])

\* an HTML response in which none of the main-content selectors matches
FetchNoMain ==
    \E ct \in ContentTypes :
        /\ is_html[ct]
        /\ Iteration([NoResponse("response") EXCEPT !.status = 200, !.ctype = ct])

\* a page has at most MaxPageLinks links, and the site at most MaxLinks links
\* and MaxRoutes routes in all
FetchPage ==
    /\ LoopGoesOn
    /\ \E resp \in PageResponses :
        /\ links_seen + Len(resp.hrefs) <= MaxLinks
        /\ route_count + resp.nroutes <= MaxRoutes
        /\ Iteration(resp)

\* line 246 is false: the frontier is empty
FrontierEmpty ==
    /\ pc = "loop"
    /\ queue = <<>>
    /\ pc' = "done"
    /\ UNCHANGED <<max_pages, queue, visited, pages, failed_urls, skipped_urls,
                   url_map, route_count, categories, fetched, enqueued, links_seen,
                   sleeps, beside_crawl>>

\* lines 247-249: break
CeilingBreak ==
    /\ pc = "loop"
    /\ queue # <<>>
    /\ CeilingReached(max_pages, Len(pages))
    /\ pc' = "done"
    /\ UNCHANGED <<max_pages, queue, visited, pages, failed_urls, skipped_urls,
                   url_map, route_count, categories, fetched, enqueued, links_seen,
                   sleeps, beside_crawl>>

Next ==
    \/ CrawlAllStart
    \/ FetchTimeout
    \/ FetchError
    \/ FetchNon200
    \/ FetchNotHtml
    \/ FetchNoMain
    \/ FetchPage
    \/ FrontierEmpty
    \/ CeilingBreak

Spec == Init /\ [][Next]_vars

(***************************************************************************)
(* The crawl of a fixed site: a finite link graph in which every in-scope  *)
(* URL has one response                                                    *)
(***************************************************************************)
SiteUrls == {u \in KnownUrls : valid[u]}

\* what a URL of the site answers: nothing in time, a status other than 200,
\* something that is not HTML, or a page with links
SiteResponses ==
    {NoResponse("timeout"),
     [NoResponse("response") EXCEPT !.status = 404],
     [NoResponse("response") EXCEPT !.status = 200, !.ctype = "application/pdf"]}
    \cup [kind : {"response"}, status : {200}, ctype : {"text/html; charset=utf-8"},
          has_main : {TRUE}, content_length : {MinContent + 1}, nroutes : {0},
          hrefs : SeqsUpTo(Hrefs, MaxPageLinks)]

\* the sites over the URLs U that have at most n links in all
RECURSIVE SitesOver(_, _)
SitesOver(U, n) ==
    IF U = {} THEN {<<>>}
    ELSE LET u == CHOOSE x \in U : TRUE
         IN  UNION {{(u :> r) @@ rest : rest \in SitesOver(U \ {u}, n - Len(r.hrefs))} :
                        r \in {x \in SiteResponses : Len(x.hrefs) <= n}}

Sites == SitesOver(SiteUrls, MaxSiteLinks)

SiteInit ==
    /\ CrawlIdle
    /\ NormIdle
    /\ CovIdle
    /\ ScopeIdle
    /\ RoutesIdle
    /\ DriverIdle
    /\ site \in Sites

\* lines 251-267 on the site: client.get(url) gives what the site answers
SiteFetch ==
    /\ LoopGoesOn
    /\ Iteration(site[Pop(queue).url])

FairNext ==
    \/ CrawlAllStart
    \/ SiteFetch
    \/ FrontierEmpty
    \/ CeilingBreak

\* crawl_all is sequential code that runs on: client.get returns or raises
\* within the client's timeout (line 97) and time.sleep returns, so a step
\* that can be taken is taken
FairSpec == SiteInit /\ [][FairNext]_vars /\ WF_vars(FairNext)

(***************************************************************************)
(* normalize_url on its own: applied to an input, to its own result, and   *)
(* to a variant of the input                                               *)
(***************************************************************************)
NormBase == "https://docs.valence.desire2learn.com"

NormPieces == {"/", "/index.html", "/api", "#s"}

RECURSIVE Extend(_, _)
Extend(S, n) ==
    IF n = 0 THEN S
    ELSE Extend(S \cup {u \o p : u \in S, p \in NormPieces}, n - 1)

NormInputs == Extend({NormBase}, MaxSuffix)

BeforeFragment(u) == SubSeq(u, 1, FindFrom(u, {"#"}, 1) - 1)

\* the URLs that differ from u only by the fragment, or only by a trailing
\* "/index.html" or "/" that u does not have
Variants(u) ==
    {BeforeFragment(u) \o "#sec1"}
    \cup (IF Contains(u, "#") THEN {BeforeFragment(u)} ELSE {u \o "/", u \o "/index.html"})

NormInit ==
    /\ CrawlIdle
    /\ SiteIdle
    /\ DriverIdle
    /\ CovIdle
    /\ ScopeIdle
    /\ RoutesIdle
    /\ n_in \in NormInputs
    /\ n_hist = <<>>
    /\ n_var = ""
    /\ n_pair = <<>>

\* normalize_url applied to the input, then to its own result
Normalize ==
    /\ Len(n_hist) < 2
    /\ n_hist' = Append(n_hist, normalize_url(IF n_hist = <<>> THEN n_in
                                               ELSE n_hist[Len(n_hist)]))
    /\ UNCHANGED <<beside_norm, n_in, n_var, n_pair>>

\* normalize_url applied to the input and to one of its variants
NormalizeVariant ==
    /\ n_pair = <<>>
    /\ \E v \in Variants(n_in) :
        /\ n_var' = v
        /\ n_pair' = <<normalize_url(n_in), normalize_url(v)>>
    /\ UNCHANGED <<beside_norm, n_in, n_hist>>

NormNext == Normalize \/ NormalizeVariant

SpecNorm == NormInit /\ [][NormNext]_vars

(***************************************************************************)
(* The coverage comparison of compare_with_app.  The percentage is kept as *)
(* the fraction num/den of two integers.                                   *)
(***************************************************************************)
\* line 638
coverage_pct(actual_pages, expected_pages) ==
    IF expected_pages > 0
    THEN [num |-> actual_pages * 100, den |-> expected_pages]
    ELSE [num |-> 0, den |-> 1]

\* coverage_pct >= t, lines 654 and 656
AtLeast_gt(pct, t) == pct.num > t * pct.den

AtLeast(pct, t) == pct.num >= t * pct.den

\* lines 654-659
CoverageStatus(pct) ==
    IF AtLeast(pct, ExcellentPct) THEN "EXCELLENT"
    ELSE IF AtLeast(pct, GoodPct) THEN "GOOD"
    ELSE "INCOMPLETE"

CovInit ==
    /\ CrawlIdle
    /\ SiteIdle
    /\ DriverIdle
    /\ NormIdle
    /\ ScopeIdle
    /\ RoutesIdle
    /\ c_expected \in 0..MaxCount
    /\ c_actual \in 0..MaxCount
    /\ c_pct = [num |-> 0, den |-> 1]
    /\ c_status = ""

\* lines 636-659 on the page counts of the baseline and of the app
Compare ==
    /\ c_status = ""
    /\ c_pct' = coverage_pct(c_actual, c_expected)
    /\ c_status' = CoverageStatus(coverage_pct(c_actual, c_expected))
    /\ UNCHANGED <<beside_cov, c_expected, c_actual>>

CovNext == Compare

SpecCov == CovInit /\ [][CovNext]_vars

(***************************************************************************)
(* is_valid on its own, applied to URLs put together from a host, a path   *)
(* and a query or fragment.  Each host says whether it is the target host, *)
(* each path whether it ends in a deny-listed extension in any letter case *)
(* (ext) and whether it contains a deny-listed fragment (skip).            *)
(***************************************************************************)
ScopeHosts ==
    { [host |-> "docs.valence.desire2learn.com", same |-> TRUE],
      [host |-> "docs.valence.desire2learn.com:443", same |-> TRUE],
      [host |-> "www.docs.valence.desire2learn.com", same |-> FALSE],
      [host |-> "valence.desire2learn.com", same |-> FALSE],
      [host |-> "docs.valence.desire2learn.com.example.com", same |-> FALSE],
      [host |-> "evil.example.com", same |-> FALSE] }

ScopePaths ==
    { [path |-> "", ext |-> FALSE, skip |-> FALSE],
      [path |-> "/", ext |-> FALSE, skip |-> FALSE],
      [path |-> "/api/lp.html", ext |-> FALSE, skip |-> FALSE],
      [path |-> "/a.pdf", ext |-> TRUE, skip |-> FALSE],
      [path |-> "/img/logo.PNG", ext |-> TRUE, skip |-> FALSE],
      [path |-> "/x.css", ext |-> TRUE, skip |-> FALSE],
      [path |-> "/x.jsx", ext |-> FALSE, skip |-> FALSE],
      [path |-> "/x.js/y", ext |-> FALSE, skip |-> FALSE],
      [path |-> "/png", ext |-> FALSE, skip |-> FALSE],
      [path |-> "/_static/a.html", ext |-> FALSE, skip |-> TRUE],
      [path |-> "/a/_sources/b.txt", ext |-> TRUE, skip |-> TRUE],
      [path |-> "/a_static/b", ext |-> FALSE, skip |-> FALSE],
      [path |-> "/_STATIC/a", ext |-> FALSE, skip |-> FALSE],
      [path |-> "/genindex.html", ext |-> FALSE, skip |-> TRUE],
      [path |-> "/search.html", ext |-> FALSE, skip |-> TRUE],
      [path |-> "/api/search.html5", ext |-> FALSE, skip |-> TRUE] }

\* what follows the path: nothing, a query, a fragment
ScopeTails == {"", "?f=a.png", "#/_static/"}

ScopeUrl(h, p, t) == "https://" \o h.host \o p.path \o t

ScopeInit ==
    /\ CrawlIdle
    /\ SiteIdle
    /\ DriverIdle
    /\ NormIdle
    /\ CovIdle
    /\ RoutesIdle
    /\ v_host \in ScopeHosts
    /\ v_path \in ScopePaths
    /\ v_tail \in ScopeTails
    /\ v_result = <<>>

\* is_valid applied to the URL
CheckScope ==
    /\ v_result = <<>>
    /\ v_result' = <<is_valid(ScopeUrl(v_host, v_path, v_tail))>>
    /\ UNCHANGED <<beside_scope, v_host, v_path, v_tail>>

ScopeNext == CheckScope

SpecScope == ScopeInit /\ [][ScopeNext]_vars

(***************************************************************************)
(* extract_api_routes on its own, applied to texts put together from       *)
(* pieces.  Each piece says which pairs it holds: routes by the pattern of *)
(* line 135, stated by the pattern read with a prefix in lower case only.  *)
(***************************************************************************)
RouteItems ==
    { [text |-> "GET /d2l/api/lp/{id}",
       routes |-> << <<"GET", "/d2l/api/lp/{id}">> >>,
       stated |-> << <<"GET", "/d2l/api/lp/{id}">> >>],
      [text |-> "post /d2l/api/le/1.1/x",
       routes |-> << <<"POST", "/d2l/api/le/1.1/x">> >>,
       stated |-> << <<"POST", "/d2l/api/le/1.1/x">> >>],
      [text |-> "Patch \n\t/d2l/api/~a-b_(v). Put  /d2l/api/X",
       routes |-> << <<"PATCH", "/d2l/api/~a-b_(v).">>, <<"PUT", "/d2l/api/X">> >>,
       stated |-> << <<"PATCH", "/d2l/api/~a-b_(v).">>, <<"PUT", "/d2l/api/X">> >>],
      [text |-> "DELETE/d2l/api/x", routes |-> <<>>, stated |-> <<>>],
      [text |-> "GET /api/d2l/x", routes |-> <<>>, stated |-> <<>>],
      [text |-> "GET /d2l/api/", routes |-> <<>>, stated |-> <<>>],
      [text |-> "to get a user", routes |-> <<>>, stated |-> <<>>],
      [text |-> "forget /d2l/api/v",
       routes |-> << <<"GET", "/d2l/api/v">> >>,
       stated |-> << <<"GET", "/d2l/api/v">> >>],
      [text |-> "GET /D2L/Api/x",
       routes |-> << <<"GET", "/D2L/Api/x">> >>,
       stated |-> <<>>] }

ItemSeparator == ", "

RECURSIVE JoinTexts(_, _)
JoinTexts(items, i) ==
    IF i > Len(items) THEN ""
    ELSE IF i = Len(items) THEN items[i].text
    ELSE items[i].text \o ItemSeparator \o JoinTexts(items, i + 1)

RoutesInit ==
    /\ CrawlIdle
    /\ SiteIdle
    /\ DriverIdle
    /\ NormIdle
    /\ CovIdle
    /\ ScopeIdle
    /\ r_items \in SeqsUpTo(RouteItems, MaxItems)
    /\ r_out = <<>>

\* extract_api_routes applied to the text; r_out holds the returned list
ExtractRoutes ==
    /\ r_out = <<>>
    /\ r_out' = <<extract_api_routes(JoinTexts(r_items, 1))>>
    /\ UNCHANGED <<beside_routes, r_items>>

RoutesNext == ExtractRoutes

SpecRoutes == RoutesInit /\ [][RoutesNext]_vars

(***************************************************************************)
(* The two button handlers of the page (lines 735-772 and 775-802), which  *)
(* share their shape: set crawl_running, create a SiteAuditor, then        *)
(* try / except Exception / finally around crawl_all and display_results.  *)
(* crawl_all and display_results return or raise; an exception that is no  *)
(* Exception (KeyboardInterrupt, the script runner's stop and rerun        *)
(* signals) passes the except clause.  open_clients counts the             *)
(* httpx.Client objects created and not closed.                            *)
(***************************************************************************)
Exceptions == {"Exception", "BaseException"}

\* where the try statement goes when kind is raised in its body
AfterRaise(kind) == IF kind = "Exception" THEN "except" ELSE "finally"

\* lines 735-755: the full audit button is enabled and clicked
ClickFull ==
    /\ d_pc = "idle"
    /\ ~crawl_running
    /\ d_runs < MaxRuns
    /\ \E mp \in 0..MaxCeiling : d_max_pages' = mp
    /\ d_button' = "full"
    /\ crawl_running' = TRUE
    /\ open_clients' = open_clients + 1
    /\ d_runs' = d_runs + 1
    /\ d_pc' = "crawl"
    /\ UNCHANGED <<beside_driver, d_exc, audit_results>>

\* lines 775-786: the quick test button is enabled and clicked
ClickQuick ==
    /\ d_pc = "idle"
    /\ ~crawl_running
    /\ d_runs < MaxRuns
    /\ d_max_pages' = QuickTestPages
    /\ d_button' = "quick"
    /\ crawl_running' = TRUE
    /\ open_clients' = open_clients + 1
    /\ d_runs' = d_runs + 1
    /\ d_pc' = "crawl"
    /\ UNCHANGED <<beside_driver, d_exc, audit_results>>

\* lines 758-759 and 789-790: crawl_all returns a result within the ceiling
CrawlReturns ==
    /\ d_pc = "crawl"
    /\ \E n \in 0..MaxCeiling :
        /\ d_max_pages = 0 \/ n <= d_max_pages
        /\ audit_results' = <<[total_pages |-> n]>>
    /\ d_pc' = "display"
    /\ UNCHANGED <<beside_driver, d_button, d_max_pages, d_exc, d_runs,
                   crawl_running, open_clients>>

\* lines 758 and 789: an exception leaves crawl_all
CrawlRaises ==
    /\ d_pc = "crawl"
    /\ \E kind \in Exceptions :
        /\ d_exc' = kind
        /\ d_pc' = AfterRaise(kind)
    /\ UNCHANGED <<beside_driver, d_button, d_max_pages, d_runs, crawl_running,
                   open_clients, audit_results>>

\* lines 761-765 and 792-795
DisplayReturns ==
    /\ d_pc = "display"
    /\ d_pc' = "finally"
    /\ UNCHANGED <<beside_driver, d_button, d_max_pages, d_exc, d_runs,
                   crawl_running, open_clients, audit_results>>

DisplayRaises ==
    /\ d_pc = "display"
    /\ \E kind \in Exceptions :
        /\ d_exc' = kind
        /\ d_pc' = AfterRaise(kind)
    /\ UNCHANGED <<beside_driver, d_button, d_max_pages, d_runs, crawl_running,
                   open_clients, audit_results>>

\* lines 767-768 and 797-798
Except ==
    /\ d_pc = "except"
    /\ d_exc' = "none"
    /\ d_pc' = "finally"
    /\ UNCHANGED <<beside_driver, d_button, d_max_pages, d_runs, crawl_running,
                   open_clients, audit_results>>

\* lines 770-772 and 800-802 without auditor.close()
Finally_leaks ==
    /\ d_pc = "finally"
    /\ crawl_running' = FALSE
    /\ d_pc' = IF d_exc = "none" THEN "idle" ELSE "aborted"
    /\ UNCHANGED <<beside_driver, d_button, d_max_pages, d_exc, d_runs,
                   open_clients, audit_results>>

\* lines 770-772 and 800-802; an exception still pending goes on and ends
\* the script run
Finally ==
    /\ d_pc = "finally"
    /\ open_clients' = open_clients - 1
    /\ crawl_running' = FALSE
    /\ d_pc' = IF d_exc = "none" THEN "idle" ELSE "aborted"
    /\ UNCHANGED <<beside_driver, d_button, d_max_pages, d_exc, d_runs,
                   audit_results>>

\* the page is run again after a script run that an exception ended; the
\* session state is kept
ScriptRerun ==
    /\ d_pc = "aborted"
    /\ d_exc' = "none"
    /\ d_pc' = "idle"
    /\ UNCHANGED <<beside_driver, d_button, d_max_pages, d_runs, crawl_running,
                   open_clients, audit_results>>

DriverNext ==
    \/ ClickFull
    \/ ClickQuick
    \/ CrawlReturns
    \/ CrawlRaises
    \/ DisplayReturns
    \/ DisplayRaises
    \/ Except
    \/ Finally
    \/ ScriptRerun

DriverInit ==
    /\ CrawlIdle
    /\ SiteIdle
    /\ NormIdle
    /\ CovIdle
    /\ ScopeIdle
    /\ RoutesIdle
    /\ DriverIdle

SpecDriver == DriverInit /\ [][DriverNext]_vars

(***************************************************************************)
(* Properties of the crawl                                                 *)
(***************************************************************************)
Occurrences(log, x) == Cardinality({i \in DOMAIN log : log[i] = x})

PageCount(u) == Cardinality({i \in DOMAIN pages : pages[i].url = u})

\* the processed pages discarded for a content length of at most 100
Discarded ==
    Cardinality({i \in DOMAIN fetched :
                    fetched[i].returned_page /\ fetched[i].content_length <= 100})

\* C1: no URL is appended to the frontier queue more than once in a crawl,
\* the seed's initial enqueue included
EnqueueOnce ==
    \A i, j \in DOMAIN enqueued : enqueued[i] = enqueued[j] => i = j

\* a URL in the queue log that pages linked to at least twice
EnqueueOnceWitness ==
    \E u \in DOMAIN url_map :
        /\ Len(url_map[u]) >= 2
        /\ Occurrences(enqueued, u) = 1

\* C2 as stated: when crawl_all has ended, by an empty frontier or by the
\* page ceiling, len(visited) = len(pages) + len(failed_urls) +
\* len(skipped_urls) + the number of discarded low-content pages
ReconciliationAtEnd ==
    pc = "done" =>
        Cardinality(visited) =
            Len(pages) + Len(failed_urls) + Len(skipped_urls) + Discarded

\* C2 amended: the URLs still in the frontier are counted too (there are
\* none when the crawl ended on an empty frontier)
ReconciliationWithFrontier ==
    pc = "done" =>
        Cardinality(visited) =
            Len(pages) + Len(failed_urls) + Len(skipped_urls) + Discarded + Len(queue)

\* a crawl ended by the ceiling with URLs left in the frontier, after a
\* committed page and a discarded one
ReconciliationWitness ==
    /\ pc = "done"
    /\ queue # <<>>
    /\ Len(pages) > 0
    /\ Discarded > 0

\* C3: with a ceiling N > 0, len(pages) never exceeds N, and once N pages
\* are committed no URL is dequeued or fetched any more
CeilingTermination ==
    /\ [](max_pages # 0 => Len(pages) <= max_pages)
    /\ [][(max_pages # 0 /\ Len(pages) >= max_pages)
            => (queue' = queue /\ fetched' = fetched /\ pages' = pages)]_vars

\* the crawl has stopped at the ceiling with a non-empty frontier
CeilingWitness ==
    /\ pc = "done"
    /\ max_pages # 0
    /\ Len(pages) = max_pages
    /\ queue # <<>>

\* C4: every URL passed to crawl_page, and every URL enqueued, satisfies
\* is_valid
ScopeMonotonic ==
    /\ \A i \in DOMAIN fetched : valid[fetched[i].url]
    /\ \A i \in DOMAIN enqueued : valid[enqueued[i]]

\* a crawl has ended in which a page linked to a URL that is not valid
ScopeWitness ==
    /\ pc = "done"
    /\ Len(fetched) >= 2
    /\ \E u \in DOMAIN url_map : url_map[u] # <<>> /\ ~valid[u]

\* C8: a URL for which crawl_page returned a page has one entry in pages if
\* its content length is greater than 100, and none otherwise
MinContentFilter ==
    \A i \in DOMAIN fetched :
        fetched[i].returned_page =>
            PageCount(fetched[i].url) = (IF fetched[i].content_length > 100 THEN 1 ELSE 0)

\* pages of length 99, 100 and 101 have been processed in one crawl
MinContentWitness ==
    \A n \in {99, 100, 101} :
        \E i \in DOMAIN fetched :
            fetched[i].returned_page /\ fetched[i].content_length = n

\* C9 as stated: categories[c] is the number of entries of pages whose
\* category is c
CategoryCountsMatchPages ==
    /\ \A c \in DOMAIN categories :
           categories[c] = Cardinality({i \in DOMAIN pages : pages[i].category = c})
    /\ \A i \in DOMAIN pages : pages[i].category \in DOMAIN categories

\* C10: crawl_page is called at most once for any URL
NoRetry ==
    \A i, j \in DOMAIN fetched : fetched[i].url = fetched[j].url => i = j

\* a URL whose fetch failed was linked again by a page processed later
NoRetryWitness ==
    \E a, b \in DOMAIN fetched :
        /\ a < b
        /\ \E k \in DOMAIN failed_urls : failed_urls[k].url = fetched[a].url
        /\ \E k \in DOMAIN url_map[fetched[a].url] :
               url_map[fetched[a].url][k] = fetched[b].url

\* the processing of a fetched URL failed: no response, a status other than
\* 200, or an exception in the extraction of the links
ProcessingFailed(f) == f.kind # "response" \/ f.status # 200 \/ f.bad_href

\* C11: when the processing of a URL fails, a failure record with that URL
\* is appended, no exception leaves crawl_all, and the loop goes on with the
\* rest of the frontier unchanged
FailureIsolation ==
    /\ [](pc # "raised")
    /\ [][(fetched' # fetched /\ ProcessingFailed(fetched'[Len(fetched')])) =>
            /\ pc' = "loop"
            /\ queue' = Tail(queue)
            /\ Len(failed_urls') = Len(failed_urls) + 1
            /\ failed_urls'[Len(failed_urls')].url = Head(queue)
            /\ failed_urls'[Len(failed_urls')].url = fetched'[Len(fetched')].url]_vars

\* the second URL failed in the extraction of its links, and the third, the
\* next of the frontier, failed by a transport error
FailureIsolationWitness ==
    /\ Len(fetched) = 3
    /\ fetched[2].bad_href
    /\ fetched[3].kind = "error"
    /\ Len(failed_urls) = 2

\* C12 as stated: when the fetch of the seed raised a transport error,
\* crawl_all does not return a result
SeedUnreachableIsFatal ==
    (\E i \in DOMAIN fetched :
        fetched[i].url \in Urls0 /\ fetched[i].kind \in {"timeout", "error"})
    => pc # "done"

\* the URLs within k links of the seed, by the links recorded in url_map
RECURSIVE Within(_)
Within(k) ==
    IF k = 0 THEN Urls0
    ELSE LET W == Within(k - 1)
         IN  W \cup {u \in DOMAIN url_map : \E i \in DOMAIN url_map[u] : url_map[u][i] \in W}

\* the shortest link-distance of a fetched URL from the seed
Dist(u) == CHOOSE k \in 0..Cardinality(KnownUrls) :
               u \in Within(k) /\ \A j \in 0..(k - 1) : u \notin Within(j)

\* the position of a URL in the log of the queue appends
EnqueuedAt(u) == CHOOSE i \in DOMAIN enqueued : enqueued[i] = u

\* C13: the i-th URL passed to crawl_page is the i-th URL that was enqueued;
\* and a URL is not processed after a URL farther from the seed that was
\* enqueued later
FifoFrontier ==
    /\ Len(fetched) <= Len(enqueued)
    /\ \A i \in DOMAIN fetched : fetched[i].url = enqueued[i]
    /\ \A i, j \in DOMAIN fetched :
           (/\ Dist(fetched[j].url) > Dist(fetched[i].url)
            /\ EnqueuedAt(fetched[j].url) > EnqueuedAt(fetched[i].url)) => i < j

\* three URLs have been processed: the seed, a URL it links to, and a URL
\* at distance 2 that was discovered on the second
FifoWitness ==
    /\ Len(fetched) = 3
    /\ Len(enqueued) = 3
    /\ Dist(fetched[2].url) = 1
    /\ Dist(fetched[3].url) = 2

\* the position of a processed URL in the log of the crawl_page calls
FetchedAt(u) == CHOOSE i \in DOMAIN fetched : fetched[i].url = u

\* C14: the parent passed to crawl_page is None for the seed and otherwise
\* the first entry of url_map for the URL, which is the page processed
\* earliest among the pages that linked to it; the page or failure record
\* of the URL stores that parent
ParentAttribution ==
    /\ \A i \in DOMAIN fetched :
           LET u == fetched[i].url
           IN  IF u \in Urls0
               THEN fetched[i].parent = None
               ELSE /\ fetched[i].parent = url_map[u][1]
                    /\ \A k \in DOMAIN url_map[u] :
                           FetchedAt(url_map[u][1]) <= FetchedAt(url_map[u][k])
    /\ \A k \in DOMAIN pages :
           pages[k].parent_url = fetched[FetchedAt(pages[k].url)].parent
    /\ \A k \in DOMAIN failed_urls :
           failed_urls[k].parent = fetched[FetchedAt(failed_urls[k].url)].parent

\* a URL that two pages had linked to before it was dequeued has been
\* processed and has a page record
ParentWitness ==
    \E i \in DOMAIN fetched :
        /\ fetched[i].url \notin Urls0
        /\ \E a, b \in DOMAIN url_map[fetched[i].url] :
               /\ a < b
               /\ url_map[fetched[i].url][a] # url_map[fetched[i].url][b]
               /\ FetchedAt(url_map[fetched[i].url][b]) < i
        /\ \E k \in DOMAIN pages : pages[k].url = fetched[i].url

\* C17: every call of crawl_page, whatever its outcome, is followed by one
\* sleep before the loop goes on, so that k fetches come with k sleeps; the
\* fetches are made one at a time
Throttle ==
    /\ [](sleeps = Len(fetched))
    /\ [][fetched' # fetched =>
            /\ Len(fetched') = Len(fetched) + 1
            /\ sleeps' = sleeps + 1]_vars

\* a crawl of three URLs has ended, of which one gave a discarded page, one
\* a failure and one a skip
ThrottleWitness ==
    /\ pc = "done"
    /\ Len(fetched) = 3
    /\ Discarded = 1
    /\ Len(failed_urls) = 1
    /\ Len(skipped_urls) = 1

\* the URLs of a sequence
Range(q) == {q[i] : i \in DOMAIN q}

\* C20: between iterations every URL of the queue is in visited, visited is
\* the set of the URLs in the queue and of the URLs dequeued so far, and no
\* step removes a URL from visited
VisitedFrontier ==
    /\ [](/\ Range(queue) \subseteq visited
          /\ visited = Range(queue) \cup {fetched[i].url : i \in DOMAIN fetched})
    /\ [][visited \subseteq visited']_vars

\* two URLs wait in the queue after the seed has been dequeued
VisitedFrontierWitness ==
    /\ pc = "loop"
    /\ Len(queue) = 2
    /\ Len(fetched) = 1
    /\ Cardinality(visited) = 3

\* the processing of a response reaches line 220: status 200, HTML, a main
\* region, and no link on which urljoin raises
Completes(r) ==
    /\ r.kind = "response"
    /\ r.status = 200
    /\ is_html[r.ctype]
    /\ r.has_main
    /\ \A i \in DOMAIN r.hrefs : ~href_raises[r.hrefs[i]]

\* the URLs that the page of u links to, if its processing completes
LinksOf(u) ==
    IF u \in DOMAIN site /\ Completes(site[u])
    THEN {link_target[u, site[u].hrefs[i]] :
              i \in {j \in DOMAIN site[u].hrefs : ~href_skipped[site[u].hrefs[j]]}}
    ELSE {}

\* the in-scope URLs within k links of the seed
RECURSIVE ReachableIn(_)
ReachableIn(k) ==
    IF k = 0 THEN Urls0
    ELSE LET R == ReachableIn(k - 1)
         IN  R \cup {v \in UNION {LinksOf(u) : u \in R} : valid[v]}

Reachable == ReachableIn(Cardinality(KnownUrls))

\* C21: on a finite site and without a page ceiling, a crawl that has
\* started ends with an empty frontier, and at its end every in-scope URL
\* reachable from the seed by the links of the pages whose processing
\* completed has been processed
FrontierEmptyTermination ==
    /\ (pc = "loop" /\ max_pages = 0) ~> (pc = "done" /\ queue = <<>>)
    /\ []((pc = "done" /\ max_pages = 0) =>
            Reachable \subseteq {fetched[i].url : i \in DOMAIN fetched})

\* a crawl without ceiling has ended on a site with a cycle: two URLs are
\* reachable, the second links back to the seed, both were processed
FrontierEmptyWitness ==
    /\ pc = "done"
    /\ max_pages = 0
    /\ queue = <<>>
    /\ Cardinality(Reachable) = 2
    /\ Len(fetched) = 2
    /\ Urls0 \subseteq LinksOf(fetched[2].url)

\* the RouteRecords that save_results materializes (lines 311-319): one for
\* each route of each of the first k committed pages
RECURSIVE RouteRecords(_)
RouteRecords(k) ==
    IF k = 0 THEN 0 ELSE RouteRecords(k - 1) + pages[k].routes_found

\* C22 as stated: at the end of a crawl total_routes, the route_count
\* accumulator, is the number of RouteRecords of the committed pages
RouteTotalConsistent ==
    pc = "done" => route_count = RouteRecords(Len(pages))

\* C23 as stated: an iteration that ends with a failure record or a skip
\* record leaves pages, categories and route_count unchanged and adds no
\* URL to the frontier or to visited
FailureSkipFrame ==
    [][(/\ fetched' # fetched
        /\ \/ Len(failed_urls') > Len(failed_urls)
           \/ Len(skipped_urls') > Len(skipped_urls))
       => /\ pages' = pages
          /\ categories' = categories
          /\ route_count' = route_count
          /\ queue' = Tail(queue)
          /\ visited' = visited]_vars

\* the number of links to u that url_map records
LinksTo(um, u) == IF u \in DOMAIN um THEN Len(um[u]) ELSE 0

\* C24: when crawl_page returns a page, its links to in-scope URLs that are
\* not yet in visited are marked visited and appended to the queue, whether
\* the page is committed or not; it is committed only if its content
\* length is greater than 100
LowContentExpansion ==
    [][(fetched' # fetched /\ fetched'[Len(fetched')].returned_page) =>
        LET f   == fetched'[Len(fetched')]
            new == {u \in DOMAIN url_map' :
                       /\ LinksTo(url_map', u) > LinksTo(url_map, u)
                       /\ valid[u]
                       /\ u \notin visited}
        IN  /\ f.content_length <= 100 => pages' = pages
            /\ f.content_length > 100 => Len(pages') = Len(pages) + 1
            /\ visited' = visited \cup new
            /\ Len(queue') = Len(queue) - 1 + Cardinality(new)
            /\ SubSeq(queue', 1, Len(queue) - 1) = Tail(queue)
            /\ Range(queue') = Range(Tail(queue)) \cup new]_vars

\* the seed gave a page of length 100 with two in-scope links: it was not
\* committed, both URLs were enqueued, and the first of them was processed
LowContentWitness ==
    /\ Len(fetched) = 2
    /\ fetched[1].returned_page
    /\ fetched[1].content_length = 100
    /\ pages = <<>>
    /\ Len(enqueued) = 3
    /\ fetched[2].url = enqueued[2]
    /\ Len(queue) = 1

(***************************************************************************)
(* Properties of the coverage comparison                                   *)
(***************************************************************************)
\* C15: the percentage is observed / expected * 100 when expected > 0 and 0
\* when expected = 0; the status is excellent from 95%, good from 80% to
\* below 95%, incomplete otherwise; observed > expected gives more than
\* 100% and excellent; expected = 0 gives 0% and incomplete
CoverageBands ==
    c_status # "" =>
        /\ c_expected > 0 => c_pct.num * c_expected = c_actual * 100 * c_pct.den
        /\ c_expected = 0 => c_pct.num = 0
        /\ c_pct.den > 0
        /\ c_status = "EXCELLENT" <=> c_pct.num >= 95 * c_pct.den
        /\ c_status = "GOOD" <=> (c_pct.num >= 80 * c_pct.den /\ c_pct.num < 95 * c_pct.den)
        /\ c_status = "INCOMPLETE" <=> c_pct.num < 80 * c_pct.den
        /\ (c_expected > 0 /\ c_actual > c_expected) =>
               (c_pct.num > 100 * c_pct.den /\ c_status = "EXCELLENT")
        /\ c_expected = 0 => c_status = "INCOMPLETE"

\* a comparison at exactly 95%
CoverageWitness ==
    /\ c_status # ""
    /\ c_expected > 0
    /\ c_actual * 100 = 95 * c_expected

(***************************************************************************)
(* Properties of is_valid                                                  *)
(***************************************************************************)
\* C19: is_valid(u) is true if and only if the host of u is the target host,
\* the path of u does not end in a deny-listed extension in any letter case,
\* and the path of u contains no deny-listed fragment
ScopeFilter ==
    v_result # <<>> =>
        (v_result[1] <=> (v_host.same /\ ~v_path.ext /\ ~v_path.skip))

\* is_valid has rejected a URL of a subdomain of the target host whose path
\* is allowed
ScopeFilterWitness ==
    /\ v_result = <<FALSE>>
    /\ v_host.host = "www.docs.valence.desire2learn.com"
    /\ ~v_path.ext
    /\ ~v_path.skip

(***************************************************************************)
(* Properties of extract_api_routes                                        *)
(***************************************************************************)
\* the pairs of the pieces of the input, in the order of the pieces
RECURSIVE RoutesOf(_, _)
RoutesOf(items, i) ==
    IF i > Len(items) THEN <<>> ELSE items[i].routes \o RoutesOf(items, i + 1)

RECURSIVE StatedOf(_, _)
StatedOf(items, i) ==
    IF i > Len(items) THEN <<>> ELSE items[i].stated \o StatedOf(items, i + 1)

\* C16 as stated: the result has one pair for each method token, in any
\* letter case, followed by whitespace and a path that starts with
\* "/d2l/api/", in the order of the text and with duplicates, the method in
\* upper case and the path as it is in the text
RoutesAsStated ==
    r_out # <<>> => r_out[1] = StatedOf(r_items, 1)

\* C16 amended: as stated, with the method letters matched also at the end
\* of a longer word, and the prefix "/d2l/api/" matched in any letter case
\* too and followed by at least one path character
RoutesByPattern ==
    r_out # <<>> => r_out[1] = RoutesOf(r_items, 1)

\* the same route has been extracted twice from one text, its method given
\* in lower case
RoutesWitness ==
    /\ r_out # <<>>
    /\ Len(r_out[1]) = 2
    /\ r_out[1][1] = <<"POST", "/d2l/api/le/1.1/x">>
    /\ r_out[1][2] = r_out[1][1]

(***************************************************************************)
(* Properties of the button handlers                                       *)
(***************************************************************************)
\* C18: when a handler has ended, by either button and whether crawl_all
\* returned or raised, the HTTP client of its SiteAuditor is closed and
\* crawl_running is False; the step that ends a handler closes one client
ClientRelease ==
    /\ []((d_pc \in {"idle", "aborted"}) => (open_clients = 0 /\ ~crawl_running))
    /\ [][(d_pc \notin {"idle", "aborted"} /\ d_pc' \in {"idle", "aborted"}) =>
            (open_clients' = open_clients - 1 /\ ~crawl_running')]_vars

\* a quick test, run after a full audit that stored its results, has ended
\* by an exception that left crawl_all or display_results
ClientReleaseWitness ==
    /\ d_pc = "aborted"
    /\ d_button = "quick"
    /\ d_runs = 2
    /\ audit_results # <<>>
    /\ open_clients = 0

(***************************************************************************)
(* Properties of normalize_url                                             *)
(***************************************************************************)
RECURSIVE TrailingSlashes(_)
TrailingSlashes(u) ==
    IF EndsWith(u, "/") THEN 1 + TrailingSlashes(DropLast(u, 1)) ELSE 0

RECURSIVE Slashes(_)
Slashes(k) == IF k = 0 THEN "" ELSE "/" \o Slashes(k - 1)

\* C5 as stated: normalize_url(normalize_url(u)) = normalize_url(u)
NormalizeIdempotent ==
    Len(n_hist) = 2 => n_hist[2] = n_hist[1]

\* C6 as stated: two URLs that differ only by the fragment, or only by a
\* trailing "/index.html" or "/", normalize to the same string
NormalizeIdentifiesVariants ==
    n_pair # <<>> => n_pair[1] = n_pair[2]

\* C7 as stated: a URL that ends in k >= 1 slashes after the fragment and
\* "/index.html" removal is normalized to a string ending in k - 1 slashes
StripsExactlyOneSlash ==
    (Len(n_hist) >= 1 /\ TrailingSlashes(strip_index(n_in)) >= 1) =>
        TrailingSlashes(n_hist[1]) = TrailingSlashes(strip_index(n_in)) - 1

\* C7 amended: all the k trailing slashes are stripped; the result is the
\* URL without them and ends in no slash
StripsAllSlashes ==
    (Len(n_hist) >= 1 /\ TrailingSlashes(strip_index(n_in)) >= 1) =>
        /\ n_hist[1] \o Slashes(TrailingSlashes(strip_index(n_in))) = strip_index(n_in)
        /\ TrailingSlashes(n_hist[1]) = 0

\* an input with at least two trailing slashes has been normalized
StripsAllSlashesWitness ==
    /\ Len(n_hist) >= 1
    /\ TrailingSlashes(strip_index(n_in)) >= 2

====
